---- MODULE Spec2Model ----
(***************************************************************************)
(* Vehicle Auction System: the bidding engine of main.py.                  *)
(*                                                                         *)
(* The application is one FastAPI process.  Handlers declared `async def`  *)
(* (api_place_bid and the three admin operations) run on the single event  *)
(* loop and make only blocking database calls before their first `await`,  *)
(* so from their first statement to their commit no other coroutine runs.  *)
(* Handlers declared `def` (home, api_get_vehicles, api_get_vehicle) run   *)
(* in the worker thread pool and interleave freely with the event loop-    *)
(* and with each other.  Every request has its own database session: what  *)
(* a session has changed is invisible to the others until it commits.  The *)
(* session factory (database.py) decides whether a query flushes first;    *)
(* the model allows both, so a writer is never held back by a sweep that   *)
(* has not committed, and a sweep meets a deleted row at its next flush or *)
(* at its commit.                                                          *)
(*                                                                         *)
(* The broadcast hub (ConnectionManager) lives on the event loop too: its   *)
(* coroutines give the loop away only at an `await`.  A broadcast is in    *)
(* flight from its first send_json to its return; it reads the live list   *)
(* self.active by position, so what other coroutines do to the list while  *)
(* a send is awaited decides which element the loop takes next.  Frames    *)
(* written to one WebSocket leave in the order their sends began.          *)
(*                                                                         *)
(* Money is kept on a grid of Scale steps per stored unit: requests carry  *)
(* any amount of the grid, the Numeric(12, 2) columns keep whole units.    *)
(***************************************************************************)
EXTENDS Integers, Sequences, FiniteSets, TLC

\* ---------------------------------------------------------------- bounds
MaxLots    == 2     \* vehicles ever created
MaxBids    == 2     \* bids ever accepted
MaxTime    == 2     \* clock ticks
MaxAmount  == 8     \* largest amount a request carries (grid steps)
NumBidders == 2     \* registered non-admin users
NumThreads == 2     \* worker threads serving the synchronous endpoints
RaceLots   == 1     \* vehicles ever created while two worker threads run
SweepThreads == 1   \* worker threads running while MaxLots vehicles exist
NumObservers == 3   \* WebSocket connections ever opened
MaxCasts   == 2     \* broadcasts in flight at once
CastObservers == 2  \* WebSocket connections ever opened while every handler runs
OrderBidders == 1   \* users bidding while NumObservers WebSockets connect
WatchObservers == 1 \* WebSocket connections ever opened while worker threads run

\* steps of the amount grid per unit of a Numeric(12, 2) column
Scale == 3

NoUser  == 0                        \* no session / NULL owner_id
Bidders == 1..NumBidders
AdminId == NumBidders + 1
Callers == {NoUser, AdminId} \cup Bidders
Threads == 1..NumThreads
LotIds  == 1..MaxLots
Deadlines == 1..MaxTime             \* auction_end of the admin forms
Amounts == 1..MaxAmount             \* BidCreate.amount: Field(..., gt=0)
StartPrices == {Scale}
Observers == 1..NumObservers        \* WebSocket objects, numbered as they connect
CastIds == 1..MaxCasts

VARIABLES
    now,            \* datetime.now()
    vehicles,       \* committed rows of table vehicles, by id
    bids,           \* committed rows of table bids
    nextVehicleId,  \* autoincrement of vehicles.id
    nextBidId,      \* autoincrement of bids.id
    validatedAgainst, \* history: bid id -> the current_price its validation read at 374
    loop,           \* the coroutine holding the event loop before its commit
    threads,        \* the worker threads
    active,         \* manager.active, the list of line 41
    clients,        \* the state of every WebSocket's connection
    inbox,          \* the bid_update frames each WebSocket's client has received, in order
    casts           \* the calls of manager.broadcast that have not returned

vars == <<now, vehicles, bids, nextVehicleId, nextBidId, validatedAgainst, loop, threads,
         active, clients, inbox, casts>>

\* ------------------------------------------------------------- helpers
\* What a Numeric(12, 2) column keeps of an amount: the nearest whole unit.
Quantize(a) == ((2 * a + Scale) \div (2 * Scale)) * Scale

Range(s) == {s[j] : j \in 1..Len(s)}

\* The ids of a set of rows as a sequence in primary-key order.
RECURSIVE SortedSeq(_)
SortedSeq(S) ==
    IF S = {} THEN <<>>
    ELSE LET m == CHOOSE x \in S : \A y \in S : x <= y
         IN  <<m>> \o SortedSeq(S \ {m})

IdleLoop   == [pc |-> "idle", user |-> NoUser, vehicle_id |-> 0, amount |-> 0,
               seen_price |-> 0, status |-> "none"]
IdleThread == [pc |-> "idle", expired |-> <<>>, i |-> 1, owners |-> <<>>]

\* No coroutine is between its first statement and its commit.
LoopIdle == loop.pc = "idle"

BidsOf(vid) == {b \in bids : b.vehicle_id = vid}

\* ------------------------------------- ConnectionManager (main.py 37-59)
\* The payloads of lines 266-277, 308-311 and 387-392.
VehicleAddedMsg(vid, row) ==
    [type |-> "vehicle_added", vehicle_id |-> vid,
     starting_price |-> row.starting_price, current_price |-> row.current_price,
     auction_end |-> row.auction_end, bidder |-> NoUser]
VehicleRemovedMsgNoId(vid) ==
    [type |-> "vehicle_removed", vehicle_id |-> 0,
     starting_price |-> 0, current_price |-> 0, auction_end |-> 0, bidder |-> NoUser]
VehicleRemovedMsg(vid) ==
    [type |-> "vehicle_removed", vehicle_id |-> vid,
     starting_price |-> 0, current_price |-> 0, auction_end |-> 0, bidder |-> NoUser]
BidUpdateMsg(vid, price, user) ==
    [type |-> "bid_update", vehicle_id |-> vid,
     starting_price |-> 0, current_price |-> price, auction_end |-> 0, bidder |-> user]

\* disconnect (47-49): remove the first occurrence when there is one.
DisconnectNoop(lst, ws) == lst
Disconnect(lst, ws) ==
    IF ws \notin Range(lst) THEN lst
    ELSE LET k == CHOOSE j \in 1..Len(lst) :
                      lst[j] = ws /\ \A h \in 1..(j - 1) : lst[h] # ws
         IN  SubSeq(lst, 1, k - 1) \o SubSeq(lst, k + 1, Len(lst))

\* lines 58-59: for ws in dead: self.disconnect(ws)
RECURSIVE DisconnectAll(_, _)
DisconnectAll(lst, dead) ==
    IF dead = <<>> THEN lst
    ELSE DisconnectAll(Disconnect(lst, Head(dead)), Tail(dead))

\* The broadcasts whose send on ws began and has not completed.
SendingOn(ws) == {c \in DOMAIN casts : casts[c].cur = ws}

\* lines 52-55 up to the first await: dead = [], the iterator takes
\* self.active[0] and send_json begins.  start and delivered are history:
\* who was connected when the call began, who has been sent the message.
NewCast(msg, bid, lst) ==
    [msg |-> msg, bid |-> bid, idx |-> 0, cur |-> lst[1], dead |-> <<>>,
     behind |-> SendingOn(lst[1]), pc |-> "sending",
     start |-> Range(lst), delivered |-> <<>>]

\* manager.broadcast(msg) called with the list lst: with no connection the
\* loops run over nothing and the call returns without giving the loop away.
StartCast(msg, bid, lst) ==
    IF lst = <<>> THEN casts
    ELSE LET c == CHOOSE x \in CastIds \ DOMAIN casts :
                      \A y \in CastIds \ DOMAIN casts : x <= y
         IN  [x \in DOMAIN casts \cup {c} |->
                 IF x = c THEN NewCast(msg, bid, lst) ELSE casts[x]]

\* A handler that broadcasts starts only while MaxCasts allows one more.
CastRoom == active = <<>> \/ Cardinality(DOMAIN casts) < MaxCasts

\* lines 56-57: except Exception: dead.append(ws), and the loop goes on.
OnSendFailureRaises(k, ws) == [k EXCEPT !.pc = "raised"]
OnSendFailure(k, ws) == [k EXCEPT !.dead = Append(@, ws), !.idx = @ + 1]

\* line 55 succeeded: the loop goes on.
OnSendSuccess(k, ws) == [k EXCEPT !.delivered = Append(@, ws), !.idx = @ + 1]

\* The send of broadcast c completes (line 55): the frame reaches a client
\* that is still there, or send_json raises.  Without a further await the
\* iterator then takes self.active[idx] of the list as it is now and the
\* next send begins, or the list is exhausted, the dead are disconnected
\* (58-59) and the call returns to its handler, which returns its response.
CastSend(c) ==
    /\ LoopIdle
    /\ c \in DOMAIN casts
    /\ casts[c].pc = "sending"
    /\ casts[c].behind = {}
    /\ LET k     == casts[c]
           ws    == k.cur
           ok    == clients[ws] = "open"
           after == IF ok THEN OnSendSuccess(k, ws) ELSE OnSendFailure(k, ws)
           more  == after.pc = "sending" /\ after.idx < Len(active)
           nxt   == active[after.idx + 1]
           rest(x) == [casts[x] EXCEPT !.behind = @ \ {c}]
       IN  /\ inbox' = IF ok /\ k.msg.type = "bid_update"
                       THEN [inbox EXCEPT ![ws] = Append(@, k.msg)] ELSE inbox
           /\ IF more
              THEN /\ casts' = [x \in DOMAIN casts |->
                                  IF x = c
                                  THEN [after EXCEPT !.cur = nxt,
                                                     !.behind = SendingOn(nxt) \ {c}]
                                  ELSE rest(x)]
                   /\ active' = active
              ELSE IF after.pc = "sending"
              THEN /\ casts' = [x \in DOMAIN casts \ {c} |-> rest(x)]
                   /\ active' = DisconnectAll(active, after.dead)
              ELSE /\ casts' = [casts EXCEPT ![c] = after]
                   /\ active' = active
    /\ UNCHANGED <<now, vehicles, bids, nextVehicleId, nextBidId, validatedAgainst,
                   loop, threads, clients>>

\* --------------------------------------- websocket_endpoint (65-72)
\* lines 67, 43-45: accept and append.  WebSocket objects are numbered in
\* the order they connect.
Connect(w) ==
    /\ LoopIdle
    /\ clients[w] = "new"
    /\ \A x \in Observers : x < w => clients[x] # "new"
    /\ clients' = [clients EXCEPT ![w] = "open"]
    /\ active' = Append(active, w)
    /\ UNCHANGED <<now, vehicles, bids, nextVehicleId, nextBidId, validatedAgainst,
                   loop, threads, inbox, casts>>

\* The client goes away: from now on a send_json on its WebSocket raises.
ClientLeaves(w) ==
    /\ clients[w] = "open"
    /\ clients' = [clients EXCEPT ![w] = "gone"]
    /\ UNCHANGED <<now, vehicles, bids, nextVehicleId, nextBidId, validatedAgainst,
                   loop, threads, active, inbox, casts>>

\* lines 69-72: receive_text raises WebSocketDisconnect, the endpoint calls
\* manager.disconnect(ws) and ends.
EndpointDisconnect(w) ==
    /\ LoopIdle
    /\ clients[w] = "gone"
    /\ clients' = [clients EXCEPT ![w] = "closed"]
    /\ active' = Disconnect(active, w)
    /\ UNCHANGED <<now, vehicles, bids, nextVehicleId, nextBidId, validatedAgainst,
                   loop, threads, inbox, casts>>

\* ------------------------------------------------------------ the clock
Tick ==
    /\ now < MaxTime
    /\ now' = now + 1
    /\ UNCHANGED <<vehicles, bids, nextVehicleId, nextBidId, validatedAgainst, loop, threads, active, clients, inbox, casts>>

\* ------------------------------------------------- api_place_bid (355-394)
\* line 372: datetime.now() >= vehicle.auction_end
ExpiredAfterOnly(end) == now > end
Expired(end) == now >= end

\* line 374: bid.amount <= vehicle.current_price
TooLowStrictOnly(amount, price) == amount < price
TooLowInverted(amount, price) == amount >= price
TooLow(amount, price) == amount <= price

\* lines 361-378: the first check that raises decides the response.
ValidateBidExpiredFirst(u, vid, a) ==
    IF u = NoUser THEN "Unauthorized"
    ELSE IF u = AdminId THEN "Forbidden"
    ELSE IF vid \notin DOMAIN vehicles THEN "NotFound"
    ELSE IF Expired(vehicles[vid].auction_end) THEN "Expired"
    ELSE IF ~vehicles[vid].is_active THEN "Closed"
    ELSE IF TooLow(a, vehicles[vid].current_price) THEN "TooLow"
    ELSE "Accepted"
ValidateBid(u, vid, a) ==
    IF u = NoUser THEN "Unauthorized"                          \* 401
    ELSE IF u = AdminId THEN "Forbidden"                       \* 403
    ELSE IF vid \notin DOMAIN vehicles THEN "NotFound"         \* 404
    ELSE IF ~vehicles[vid].is_active THEN "Closed"             \* 400 ended
    ELSE IF Expired(vehicles[vid].auction_end) THEN "Expired"  \* 400 expired
    ELSE IF TooLow(a, vehicles[vid].current_price) THEN "TooLow"
    ELSE "Accepted"

\* lines 361-378 for one request: the session loads the vehicle and the
\* checks run; a failed check raises, a passed validation goes on to 380.
PlaceBidValidate(u, vid, a) ==
    /\ LoopIdle
    /\ LET st == ValidateBid(u, vid, a) IN
        /\ st = "Accepted" => (nextBidId <= MaxBids /\ CastRoom)
        /\ loop' = IF st = "Accepted"
                   THEN [pc |-> "validated", user |-> u, vehicle_id |-> vid,
                         amount |-> a, seen_price |-> vehicles[vid].current_price,
                         status |-> st]
                   ELSE [IdleLoop EXCEPT !.pc = "rejected", !.status = st]
    /\ UNCHANGED <<now, vehicles, bids, nextVehicleId, nextBidId, validatedAgainst, threads, active, clients, inbox, casts>>

\* The HTTPException leaves the handler: nothing was added to the session
\* and line 387 is not reached.
PlaceBidRejectPublishes ==
    /\ loop.pc = "rejected"
    /\ loop' = IdleLoop
    /\ casts' = StartCast(BidUpdateMsg(0, 0, NoUser), 0, active)
    /\ UNCHANGED <<now, vehicles, bids, nextVehicleId, nextBidId, validatedAgainst, threads, active, clients, inbox>>
PlaceBidReject ==
    /\ loop.pc = "rejected"
    /\ loop' = IdleLoop
    /\ UNCHANGED <<now, vehicles, bids, nextVehicleId, nextBidId, validatedAgainst, threads, active, clients, inbox, casts>>

\* lines 380-384: UPDATE vehicles SET current_price, INSERT INTO bids, COMMIT.
\* The UPDATE names only the changed column and no expected value.
\* lines 387-392: the payload is built from the row as committed and
\* manager.broadcast is called; line 394 follows its return.
PlaceBidCommit ==
    /\ loop.pc = "validated"
    /\ loop.vehicle_id \in DOMAIN vehicles
    /\ bids' = bids \cup {[id |-> nextBidId, amount |-> Quantize(loop.amount),
                           user_id |-> loop.user, vehicle_id |-> loop.vehicle_id]}
    /\ vehicles' = [vehicles EXCEPT ![loop.vehicle_id].current_price = Quantize(loop.amount)]
    /\ validatedAgainst' = [b \in DOMAIN validatedAgainst \cup {nextBidId} |->
                               IF b = nextBidId THEN loop.seen_price
                               ELSE validatedAgainst[b]]
    /\ nextBidId' = nextBidId + 1
    /\ loop' = IdleLoop
    /\ casts' = StartCast(BidUpdateMsg(loop.vehicle_id, Quantize(loop.amount), loop.user),
                          nextBidId, active)
    /\ UNCHANGED <<now, nextVehicleId, threads, active, clients, inbox>>

\* ------------------------------------------------ admin operations
\* The row admin_add_vehicle inserts (lines 252-260).
NewVehicle(p, e) ==
    [starting_price |-> Quantize(p), current_price |-> Quantize(p),
     auction_end |-> e, is_active |-> TRUE, owner_id |-> NoUser]

\* admin_add_vehicle (229-279): 403 for a non-admin, else INSERT, COMMIT and
\* the broadcast of the new row (266-277).
AdminAddVehicle(c, p, e) ==
    /\ LoopIdle
    /\ IF c # AdminId
       THEN UNCHANGED <<vehicles, nextVehicleId, casts>>
       ELSE /\ nextVehicleId <= MaxLots
            /\ CastRoom
            /\ casts' = StartCast(VehicleAddedMsg(nextVehicleId, NewVehicle(p, e)), 0, active)
            /\ vehicles' = [v \in DOMAIN vehicles \cup {nextVehicleId} |->
                              IF v = nextVehicleId THEN NewVehicle(p, e)
                              ELSE vehicles[v]]
            /\ nextVehicleId' = nextVehicleId + 1
    /\ UNCHANGED <<now, bids, nextBidId, validatedAgainst, loop, threads, active, clients, inbox>>

\* models.py 41 and 51: cascade="all, delete-orphan" on Vehicle.bids and
\* ondelete="CASCADE" on Bid.vehicle_id: the bids go with their vehicle.
BidsKeptOnDelete(vid) == bids
BidsAfterDelete(vid) == bids \ BidsOf(vid)

\* admin_delete_vehicle (283-313): 403, 404, else DELETE of the vehicle and,
\* by the relationship's cascade, of its bids; COMMIT; the broadcast of the
\* removal (308-311).
AdminDeleteVehicle(c, vid) ==
    /\ LoopIdle
    /\ IF c # AdminId \/ vid \notin DOMAIN vehicles
       THEN UNCHANGED <<vehicles, bids, validatedAgainst, casts>>
       ELSE /\ CastRoom
            /\ casts' = StartCast(VehicleRemovedMsg(vid), 0, active)
            /\ vehicles' = [v \in DOMAIN vehicles \ {vid} |-> vehicles[v]]
            /\ bids' = BidsAfterDelete(vid)
            /\ validatedAgainst' =
                  [b \in DOMAIN validatedAgainst \ {x.id : x \in BidsOf(vid)} |->
                      validatedAgainst[b]]
    /\ UNCHANGED <<now, nextVehicleId, nextBidId, loop, threads, active, clients, inbox>>

\* admin_update_auction (317-334): 403, 404, else UPDATE auction_end; COMMIT.
\* The handler calls no broadcast.
AdminUpdateAuctionReopens(c, vid, e) ==
    /\ LoopIdle
    /\ IF c # AdminId \/ vid \notin DOMAIN vehicles
       THEN UNCHANGED vehicles
       ELSE vehicles' = [vehicles EXCEPT ![vid].auction_end = e, ![vid].is_active = TRUE]
    /\ UNCHANGED <<now, bids, nextVehicleId, nextBidId, validatedAgainst, loop, threads, active, clients, inbox, casts>>
AdminUpdateAuction(c, vid, e) ==
    /\ LoopIdle
    /\ IF c # AdminId \/ vid \notin DOMAIN vehicles
       THEN UNCHANGED vehicles
       ELSE vehicles' = [vehicles EXCEPT ![vid].auction_end = e]
    /\ UNCHANGED <<now, bids, nextVehicleId, nextBidId, validatedAgainst, loop, threads, active, clients, inbox, casts>>

\* ------------------------------------------- finalize_auctions (84-104)
\* lines 87-91: WHERE is_active = 1 AND auction_end <= now
ExpiredVehiclesAnyState ==
    {v \in DOMAIN vehicles : vehicles[v].auction_end <= now}
ExpiredVehicles ==
    {v \in DOMAIN vehicles : vehicles[v].is_active /\ vehicles[v].auction_end <= now}

\* lines 95-100: ORDER BY amount DESC ... first().  Rows of equal amount come
\* in an order the query does not fix.
TopBids(vid) == {b \in BidsOf(vid) : \A c \in BidsOf(vid) : c.amount <= b.amount}

\* lines 86-91: the session loads the expired vehicles.  With none the loop
\* and the commit are skipped and the endpoint goes on to its listing.
SweepQuery(t) ==
    /\ threads[t].pc = "idle"
    /\ threads' = [threads EXCEPT ![t] =
          [pc      |-> IF ExpiredVehicles = {} THEN "list" ELSE "loop",
           expired |-> SortedSeq(ExpiredVehicles),
           i       |-> 1,
           owners  |-> <<>>]]
    /\ UNCHANGED <<now, vehicles, bids, nextVehicleId, nextBidId, validatedAgainst, loop, active, clients, inbox, casts>>

\* lines 93-102 for one vehicle: is_active = False, the query for the top bid
\* among the committed bids, and owner_id when there is one (NoUser: owner_id
\* is left as loaded).
SweepLot(t) ==
    LET th == threads[t] IN
    /\ th.pc = "loop"
    /\ th.i <= Len(th.expired)
    /\ \E o \in IF TopBids(th.expired[th.i]) = {} THEN {NoUser}
                ELSE {b.user_id : b \in TopBids(th.expired[th.i])} :
          threads' = [threads EXCEPT ![t].i = th.i + 1,
                                     ![t].owners = Append(th.owners, o)]
    /\ UNCHANGED <<now, vehicles, bids, nextVehicleId, nextBidId, validatedAgainst, loop, active, clients, inbox, casts>>

\* A flush (before the query of line 95, or in the commit of line 104) finds
\* a row deleted since line 91: its UPDATE matches no row (StaleDataError),
\* the exception leaves finalize_auctions and the session is rolled back.
SweepStale(t) ==
    LET th == threads[t] IN
    /\ th.pc = "loop"
    /\ \E j \in 1..Len(th.expired) : j <= th.i /\ th.expired[j] \notin DOMAIN vehicles
    /\ threads' = [threads EXCEPT ![t] = IdleThread]
    /\ UNCHANGED <<now, vehicles, bids, nextVehicleId, nextBidId, validatedAgainst, loop, active, clients, inbox, casts>>

\* A database error raised by a statement of the loop body (lines 93-102):
\* nothing catches it, the session is rolled back with every vehicle the loop
\* has gone through.
SweepError(t) ==
    LET th == threads[t] IN
    /\ th.pc = "loop"
    /\ th.i <= Len(th.expired)
    /\ threads' = [threads EXCEPT ![t] = IdleThread]
    /\ UNCHANGED <<now, vehicles, bids, nextVehicleId, nextBidId, validatedAgainst, loop, active, clients, inbox, casts>>

\* What the session writes at its commit: every vehicle it loaded.
SweepWrites(t) == Range(threads[t].expired)

PendingOwner(t, v) ==
    LET j == CHOOSE k \in 1..Len(threads[t].expired) : threads[t].expired[k] = v
    IN  threads[t].owners[j]

\* lines 103-104: the one commit of the sweep, after the loop.
SweepCommit(t) ==
    LET th == threads[t] IN
    /\ th.pc = "loop"
    /\ th.i > Len(th.expired)
    /\ SweepWrites(t) \subseteq DOMAIN vehicles
    /\ vehicles' = [v \in DOMAIN vehicles |->
          IF v \in SweepWrites(t)
          THEN [vehicles[v] EXCEPT !.is_active = FALSE,
                                   !.owner_id = IF PendingOwner(t, v) # NoUser
                                                THEN PendingOwner(t, v) ELSE @]
          ELSE vehicles[v]]
    /\ threads' = [threads EXCEPT ![t].pc = "list"]
    /\ UNCHANGED <<now, bids, nextVehicleId, nextBidId, validatedAgainst, loop, active, clients, inbox, casts>>

\* ------------------------------------------------------- the read paths
\* home line 114, api_get_vehicles line 344: WHERE is_active = 1
ActiveVehicles == {v \in DOMAIN vehicles : vehicles[v].is_active}

\* api_get_vehicles (341-344) after its finalize_auctions: the listing.
ApiGetVehicles(t) ==
    /\ threads[t].pc = "list"
    /\ threads' = [threads EXCEPT ![t] = IdleThread]
    /\ UNCHANGED <<now, vehicles, bids, nextVehicleId, nextBidId, validatedAgainst, loop, active, clients, inbox, casts>>

\* api_get_vehicle (347-352): one query by id, 404 or the row as it is.
ApiGetVehicle(t, vid) ==
    /\ threads[t].pc = "idle"
    /\ threads' = [threads EXCEPT ![t].pc =
                      IF vid \in DOMAIN vehicles THEN "fetched" ELSE "notfound"]
    /\ UNCHANGED <<now, vehicles, bids, nextVehicleId, nextBidId, validatedAgainst, loop, active, clients, inbox, casts>>

\* The response of api_get_vehicle leaves the worker thread.
ApiGetVehicleReturn(t) ==
    /\ threads[t].pc \in {"fetched", "notfound"}
    /\ threads' = [threads EXCEPT ![t] = IdleThread]
    /\ UNCHANGED <<now, vehicles, bids, nextVehicleId, nextBidId, validatedAgainst, loop, active, clients, inbox, casts>>

Init ==
    /\ now = 0
    /\ vehicles = <<>>
    /\ bids = {}
    /\ nextVehicleId = 1
    /\ nextBidId = 1
    /\ validatedAgainst = <<>>
    /\ loop = IdleLoop
    /\ threads = [t \in Threads |-> IdleThread]
    /\ active = <<>>
    /\ clients = [w \in Observers |-> "new"]
    /\ inbox = [w \in Observers |-> <<>>]
    /\ casts = <<>>

\* The steps of the event loop and of the clock.
LoopNext ==
    \/ Tick
    \/ \E u \in Callers, vid \in LotIds, a \in Amounts : PlaceBidValidate(u, vid, a)
    \/ PlaceBidReject
    \/ PlaceBidCommit
    \/ \E c \in Callers, vid \in LotIds : AdminDeleteVehicle(c, vid)
    \/ \E c \in Callers, vid \in LotIds, e \in Deadlines : AdminUpdateAuction(c, vid, e)

\* The steps of worker thread t.
ThreadNext(t) ==
    \/ SweepQuery(t)
    \/ SweepLot(t)
    \/ SweepStale(t)
    \/ SweepError(t)
    \/ SweepCommit(t)
    \/ ApiGetVehicles(t)
    \/ \E vid \in LotIds : ApiGetVehicle(t, vid)
    \/ ApiGetVehicleReturn(t)

\* The steps of the WebSocket endpoints, their clients and the broadcasts.
HubNext(n) ==
    \/ \E w \in 1..n : Connect(w)
    \/ \E w \in 1..n : ClientLeaves(w)
    \/ \E w \in 1..n : EndpointDisconnect(w)
    \/ \E c \in CastIds : CastSend(c)

Next ==
    \/ LoopNext
    \/ \E c \in Callers, p \in StartPrices, e \in Deadlines : AdminAddVehicle(c, p, e)
    \/ \E t \in Threads : ThreadNext(t)
    \/ HubNext(NumObservers)

\* Every operation, any number of vehicles up to MaxLots, NumThreads threads.
Spec == Init /\ [][Next]_vars

\* Two worker threads race each other and the event loop over RaceLots
\* vehicles; no WebSocket is connected.
NextRace ==
    \/ LoopNext
    \/ \E c \in Callers, p \in StartPrices, e \in Deadlines :
          nextVehicleId <= RaceLots /\ AdminAddVehicle(c, p, e)
    \/ \E t \in Threads : ThreadNext(t)

SpecRace == Init /\ [][NextRace]_vars

\* SweepThreads worker threads sweep MaxLots vehicles beside the event loop;
\* no WebSocket is connected.
NextSweep ==
    \/ LoopNext
    \/ \E c \in Callers, p \in StartPrices, e \in Deadlines : AdminAddVehicle(c, p, e)
    \/ \E t \in 1..SweepThreads : ThreadNext(t)

SpecSweep == Init /\ [][NextSweep]_vars

\* The event loop and the hub over RaceLots vehicles and CastObservers
\* WebSockets, before any deadline: the clock stands still and no worker
\* thread runs.
NextCast ==
    \/ \E u \in Callers, vid \in LotIds, a \in Amounts : PlaceBidValidate(u, vid, a)
    \/ PlaceBidReject
    \/ PlaceBidCommit
    \/ \E c \in Callers, p \in StartPrices, e \in Deadlines :
          nextVehicleId <= RaceLots /\ AdminAddVehicle(c, p, e)
    \/ \E c \in Callers, vid \in LotIds : AdminDeleteVehicle(c, vid)
    \/ \E c \in Callers, vid \in LotIds, e \in Deadlines : AdminUpdateAuction(c, vid, e)
    \/ HubNext(CastObservers)

SpecCast == Init /\ [][NextCast]_vars

\* The bids of OrderBidders users on RaceLots vehicles are broadcast to
\* NumObservers WebSockets: the administrator adds the vehicles and does
\* nothing else, the clock stands still and no worker thread runs.
NextOrder ==
    \/ \E u \in 1..OrderBidders, vid \in LotIds, a \in Amounts : PlaceBidValidate(u, vid, a)
    \/ PlaceBidReject
    \/ PlaceBidCommit
    \/ \E c \in {AdminId}, p \in StartPrices, e \in {MaxTime} :
          nextVehicleId <= RaceLots /\ AdminAddVehicle(c, p, e)
    \/ HubNext(NumObservers)

SpecOrder == Init /\ [][NextOrder]_vars

\* Every handler over RaceLots vehicles with the clock running, SweepThreads
\* worker threads and WatchObservers WebSockets.
NextWatch ==
    \/ LoopNext
    \/ \E c \in Callers, p \in StartPrices, e \in Deadlines :
          nextVehicleId <= RaceLots /\ AdminAddVehicle(c, p, e)
    \/ \E t \in 1..SweepThreads : ThreadNext(t)
    \/ HubNext(WatchObservers)

SpecWatch == Init /\ [][NextWatch]_vars

\* =================================================================== claims
Existing(v) == v \in DOMAIN vehicles /\ v \in DOMAIN vehicles'

\* The amount of the bid accepted last for a vehicle, or its starting price.
LatestAmount(v) ==
    IF BidsOf(v) = {} THEN vehicles[v].starting_price
    ELSE (CHOOSE b \in BidsOf(v) : \A c \in BidsOf(v) : c.id <= b.id).amount

\* C1: under every interleaving of bids, sweeps and admin operations a
\* vehicle's current_price never decreases, and in every state it is the
\* amount of the bid accepted last for the vehicle, or starting_price when no
\* bid was accepted (so it never ends below a higher accepted bid).
C1_PriceMonotoneAndLatest ==
    /\ [][\A v \in LotIds : Existing(v) =>
             vehicles'[v].current_price >= vehicles[v].current_price]_vars
    /\ [](\A v \in DOMAIN vehicles : vehicles[v].current_price = LatestAmount(v))

\* Two bids of different amounts were accepted for one vehicle and its price
\* is the higher, later one.
C1_Witness ==
    \E v \in DOMAIN vehicles : \E b, c \in BidsOf(v) :
        /\ b.id < c.id
        /\ b.amount < c.amount
        /\ vehicles[v].starting_price < b.amount
        /\ vehicles[v].current_price = c.amount

\* C2: a bid is committed only while the vehicle's current_price is still the
\* value its validation read, and no two accepted bids of one vehicle were
\* validated against the same current_price value.
C2_OneBidPerPrice ==
    \A b, c \in bids :
        (b.id # c.id /\ b.vehicle_id = c.vehicle_id)
            => validatedAgainst[b.id] # validatedAgainst[c.id]

\* C3: once a vehicle is closed, its bid history and its current_price never
\* change again: a bid validated before the sweep closed the vehicle is not
\* committed after it.
C3_NoBidAfterClose ==
    [][\A v \in LotIds : (Existing(v) /\ ~vehicles[v].is_active) =>
          /\ {b \in bids' : b.vehicle_id = v} = {b \in bids : b.vehicle_id = v}
          /\ vehicles'[v].current_price = vehicles[v].current_price]_vars

\* C4: in every state a closed vehicle's owner is the bidder of a bid of the
\* highest amount in its bid history, or NULL when it has no bids.
C4_OwnerIsTopBidder ==
    \A v \in DOMAIN vehicles : ~vehicles[v].is_active =>
        IF BidsOf(v) = {} THEN vehicles[v].owner_id = NoUser
        ELSE vehicles[v].owner_id \in {b.user_id : b \in TopBids(v)}

\* C5: finalization happens once per vehicle: is_active never returns to
\* true, and a sweep commits its closing and its choice of owner only for
\* vehicles no other sweep pass has finalized already.
C5_FinalizedOnce ==
    [][\A v \in LotIds :
          /\ (Existing(v) /\ ~vehicles[v].is_active) => ~vehicles'[v].is_active
          /\ \A t \in Threads : (SweepCommit(t) /\ v \in SweepWrites(t))
                                    => vehicles[v].is_active]_vars

\* C6 as stated: a bid of a bidder whose amount is at most the vehicle's
\* current_price is rejected with TooLow whatever is_active and auction_end.
C6_AlwaysTooLow ==
    [][\A u \in Bidders, v \in LotIds, a \in Amounts :
          (/\ PlaceBidValidate(u, v, a)
           /\ v \in DOMAIN vehicles
           /\ a <= vehicles[v].current_price)
              => loop'.status = "TooLow"]_vars

\* C6 amended: a bid whose amount is at most the vehicle's current_price is
\* always rejected and nothing is appended to the bid history; the reason is
\* TooLow when the caller is a bidder, the vehicle is open and its deadline
\* is ahead, and Unauthorized/Forbidden, Closed or Expired otherwise.  Every
\* bid that is committed exceeds the current_price of that moment.
C6_LowBidRejected ==
    [][/\ \A u \in Callers, v \in LotIds, a \in Amounts :
            (/\ PlaceBidValidate(u, v, a)
             /\ v \in DOMAIN vehicles
             /\ a <= vehicles[v].current_price)
                => /\ loop'.pc = "rejected"
                   /\ bids' = bids
                   /\ loop'.status \in {"Unauthorized", "Forbidden", "Closed",
                                        "Expired", "TooLow"}
                   /\ (u \in Bidders /\ vehicles[v].is_active
                         /\ now < vehicles[v].auction_end)
                        => loop'.status = "TooLow"
       /\ PlaceBidCommit => loop.amount > vehicles[loop.vehicle_id].current_price]_vars

\* A bid was rejected as too low on a vehicle that is open with its deadline
\* ahead and whose price was raised by an earlier bid.
C6_Witness ==
    /\ loop.pc = "rejected"
    /\ loop.status = "TooLow"
    /\ \E v \in DOMAIN vehicles :
          /\ vehicles[v].is_active
          /\ now < vehicles[v].auction_end
          /\ BidsOf(v) # {}

\* C7 as stated: a bid of a bidder submitted when now >= auction_end is
\* rejected with Expired.
C7_AlwaysExpired ==
    [][\A u \in Bidders, v \in LotIds, a \in Amounts :
          (/\ PlaceBidValidate(u, v, a)
           /\ v \in DOMAIN vehicles
           /\ now >= vehicles[v].auction_end)
              => loop'.status = "Expired"]_vars

\* C7 amended: a bid of a bidder submitted when now >= auction_end is always
\* rejected and appends nothing: with Expired while is_active is still true
\* (the sweep has not run), with Closed once the vehicle is closed.
C7_LateBidRejected ==
    [][\A u \in Bidders, v \in LotIds, a \in Amounts :
          (/\ PlaceBidValidate(u, v, a)
           /\ v \in DOMAIN vehicles
           /\ now >= vehicles[v].auction_end)
              => /\ loop'.pc = "rejected"
                 /\ bids' = bids
                 /\ loop'.status = IF vehicles[v].is_active THEN "Expired"
                                   ELSE "Closed"]_vars

\* A bid was rejected as expired while the vehicle is past its deadline and
\* no sweep has closed it.
C7_Witness ==
    /\ loop.pc = "rejected"
    /\ loop.status = "Expired"
    /\ \E v \in DOMAIN vehicles :
          vehicles[v].is_active /\ now >= vehicles[v].auction_end

\* C8: a sweep selects exactly the vehicles that are open with
\* auction_end <= now when it queries, closes exactly those at its commit, and
\* changes no other vehicle and no bid at any of its steps: a vehicle already
\* closed when a sweep is called is left as it is, whatever bids or
\* reschedules came before.
C8_SweepFrame ==
    [][\A t \in Threads :
          /\ SweepQuery(t) =>
                Range(threads'[t].expired) =
                    {v \in DOMAIN vehicles :
                        vehicles[v].is_active /\ vehicles[v].auction_end <= now}
          /\ SweepCommit(t) =>
                \A v \in DOMAIN vehicles :
                    IF v \in Range(threads[t].expired)
                    THEN ~vehicles'[v].is_active
                    ELSE vehicles'[v] = vehicles[v]
          /\ (SweepQuery(t) \/ SweepLot(t) \/ SweepStale(t) \/ SweepError(t))
                => vehicles' = vehicles
          /\ (SweepQuery(t) \/ SweepLot(t) \/ SweepStale(t) \/ SweepError(t)
                \/ SweepCommit(t)) => bids' = bids]_vars

\* A sweep has committed the closing of one vehicle and left alone another
\* that was closed before, has bids and is past its deadline.
C8_Witness ==
    \E t \in Threads : \E v, w \in DOMAIN vehicles :
        /\ threads[t].pc = "list"
        /\ v \in Range(threads[t].expired)
        /\ w \notin Range(threads[t].expired)
        /\ ~vehicles[w].is_active
        /\ vehicles[w].auction_end <= now
        /\ BidsOf(w) # {}

\* C9: no read returns a vehicle that is open with auction_end at or before
\* the time of the read, neither the listing nor the fetch of one vehicle.
C9_ReadsSeeNoExpiredOpenLot ==
    [][\A t \in Threads :
          /\ ApiGetVehicles(t) =>
                \A v \in ActiveVehicles : vehicles[v].auction_end > now
          /\ \A v \in LotIds : (ApiGetVehicle(t, v) /\ v \in DOMAIN vehicles) =>
                ~(vehicles[v].is_active /\ vehicles[v].auction_end <= now)]_vars

\* C10: when a sweep fails partway through its vehicles, the vehicles its
\* loop has already gone through are closed in the committed state.
C10_ProcessedStayClosed ==
    [][\A t \in Threads : (SweepError(t) \/ SweepStale(t)) =>
          \A j \in 1..(threads[t].i - 1) :
              threads[t].expired[j] \in DOMAIN vehicles
                  => ~vehicles'[threads[t].expired[j]].is_active]_vars

\* A broadcast that began at this step.
NewCasts == {c \in DOMAIN casts' : c \notin DOMAIN casts}

\* C11: the bid_update of a bid is handed to the hub only with the commit of
\* the bid row and of the new current_price behind it; a send that fails
\* changes no vehicle and no bid and does not leave broadcast as an
\* exception: the broadcast goes on or returns, and api_place_bid returns
\* its Bid.
C11_PublishAfterCommit ==
    [][/\ \A c \in NewCasts : casts'[c].msg.type = "bid_update" =>
             /\ PlaceBidCommit
             /\ \E b \in bids' :
                   /\ b.id = casts'[c].bid
                   /\ b \notin bids
                   /\ b.vehicle_id = casts'[c].msg.vehicle_id
                   /\ b.amount = casts'[c].msg.current_price
                   /\ b.user_id = casts'[c].msg.bidder
                   /\ vehicles'[b.vehicle_id].current_price = casts'[c].msg.current_price
       /\ \A c \in CastIds : CastSend(c) =>
             /\ bids' = bids
             /\ vehicles' = vehicles
             /\ c \in DOMAIN casts' => casts'[c].pc = "sending"]_vars

\* The broadcast of a committed bid is going on after a send of it failed.
C11_Witness ==
    \E c \in DOMAIN casts :
        /\ casts[c].msg.type = "bid_update"
        /\ casts[c].dead # <<>>
        /\ \E b \in bids :
              /\ b.id = casts[c].bid
              /\ vehicles[b.vehicle_id].current_price = b.amount

\* Broadcast c returns at this step.
Returns(c) == CastSend(c) /\ c \notin DOMAIN casts'

\* The WebSockets broadcast c has failed to send to, and has sent to, once
\* its send in progress is over.
FailedOf(c) ==
    Range(casts[c].dead) \cup
        (IF clients[casts[c].cur] # "open" THEN {casts[c].cur} ELSE {})
SucceededOf(c) ==
    Range(casts[c].delivered) \cup
        (IF clients[casts[c].cur] = "open" THEN {casts[c].cur} ELSE {})

\* C12 as stated: when a broadcast returns, every WebSocket whose send failed
\* is out of manager.active and every WebSocket whose send succeeded is in it.
C12_FailedOutSucceededIn ==
    [][\A c \in CastIds : Returns(c) =>
          /\ \A ws \in FailedOf(c) : ws \notin Range(active')
          /\ \A ws \in SucceededOf(c) : ws \in Range(active')]_vars

\* C12 amended: when a broadcast returns, every WebSocket whose send failed
\* is out of manager.active; the call itself removes no other WebSocket, and
\* a WebSocket whose send succeeded is out of the list only when its client
\* has gone away since (its endpoint or another broadcast removed it).  A
\* failed send never leaves broadcast as an exception.
C12_PrunesTheFailed ==
    [][\A c \in CastIds :
          /\ Returns(c) =>
                /\ \A ws \in FailedOf(c) : ws \notin Range(active')
                /\ \A ws \in Range(active) \ FailedOf(c) : ws \in Range(active')
                /\ \A ws \in SucceededOf(c) :
                      ws \notin Range(active') => clients'[ws] \in {"gone", "closed"}
          /\ (CastSend(c) /\ ~Returns(c)) => casts'[c].pc = "sending"]_vars

\* Every broadcast has returned; one of them has pruned a WebSocket whose
\* client went away and whose endpoint has not noticed, and has left in the
\* list a WebSocket that received a frame.
C12_Witness ==
    /\ casts = <<>>
    /\ \E w, x \in Observers :
          /\ clients[w] = "gone"
          /\ w \notin Range(active)
          /\ clients[x] = "open"
          /\ x \in Range(active)
          /\ inbox[x] # <<>>

\* How many times broadcast c has sent its message to w, once its send in
\* progress is over.
TimesSent(c, w) ==
    Cardinality({j \in 1..Len(casts[c].delivered) : casts[c].delivered[j] = w})
        + (IF casts[c].cur = w /\ clients[w] = "open" THEN 1 ELSE 0)

\* C13: when the broadcast of an accepted bid returns, every WebSocket that
\* was in manager.active when it began, is in it still and has its client
\* there, has been sent the bid_update exactly once, whatever connected,
\* disconnected or was pruned in between.
C13_EveryObserverOnce ==
    [][\A c \in CastIds : (Returns(c) /\ casts[c].msg.type = "bid_update") =>
          \A w \in casts[c].start :
              (w \in Range(active) /\ clients[w] = "open") => TimesSent(c, w) = 1]_vars

\* C14: in every state every bid's vehicle_id is the id of a vehicle row:
\* admin_delete_vehicle removes the bids of the vehicle with it, also while
\* an api_place_bid on that vehicle has committed and not yet returned.
C14_BidsReferToLots ==
    \A b \in bids : b.vehicle_id \in DOMAIN vehicles

\* A vehicle was removed while the api_place_bid that committed a bid on it
\* is still in its broadcast; the bid is gone with it.
C14_Witness ==
    \E c \in DOMAIN casts :
        /\ casts[c].msg.type = "bid_update"
        /\ casts[c].msg.vehicle_id \notin DOMAIN vehicles
        /\ \A b \in bids : b.id # casts[c].bid

\* This step hands exactly the messages of M (none or one) to the hub: the
\* broadcasts in flight are left as they are and, when a WebSocket is
\* connected, one broadcast begins for every message of M, addressed to the
\* whole list.
Publishes(M) ==
    /\ \A k \in DOMAIN casts : k \in DOMAIN casts' /\ casts'[k] = casts[k]
    /\ IF active = <<>> THEN NewCasts = {}
       ELSE /\ {casts'[k].msg : k \in NewCasts} = M
            /\ Cardinality(NewCasts) = Cardinality(M)
            /\ \A k \in NewCasts : casts'[k].start = Range(active)

\* C15: admin_add_vehicle, once committed, publishes exactly one
\* vehicle_added with the new row's id, prices and auction_end;
\* admin_delete_vehicle, once committed, exactly one vehicle_removed with the
\* vehicle's id; admin_update_auction publishes nothing; an operation that is
\* refused (caller not the administrator, vehicle unknown) publishes nothing:
\* a vehicle_added begins only at the step that inserts its vehicle, a
\* vehicle_removed only at the step that deletes its vehicle.
C15_AdminEvents ==
    [][/\ \A p \in StartPrices, e \in Deadlines :
             (nextVehicleId' # nextVehicleId /\ AdminAddVehicle(AdminId, p, e)) =>
                /\ nextVehicleId \in DOMAIN vehicles'
                /\ Publishes({[type |-> "vehicle_added", vehicle_id |-> nextVehicleId,
                               starting_price |-> vehicles'[nextVehicleId].starting_price,
                               current_price |-> vehicles'[nextVehicleId].current_price,
                               auction_end |-> vehicles'[nextVehicleId].auction_end,
                               bidder |-> NoUser]})
       /\ \A v \in DOMAIN vehicles :
             (v \notin DOMAIN vehicles' /\ AdminDeleteVehicle(AdminId, v)) =>
                Publishes({[type |-> "vehicle_removed", vehicle_id |-> v,
                            starting_price |-> 0, current_price |-> 0,
                            auction_end |-> 0, bidder |-> NoUser]})
       /\ \A v \in DOMAIN vehicles, e \in Deadlines :
             AdminUpdateAuction(AdminId, v, e) => Publishes({})
       /\ \A k \in NewCasts :
             /\ casts'[k].msg.type = "vehicle_added" =>
                   casts'[k].msg.vehicle_id \in DOMAIN vehicles' \ DOMAIN vehicles
             /\ casts'[k].msg.type = "vehicle_removed" =>
                   casts'[k].msg.vehicle_id \in DOMAIN vehicles \ DOMAIN vehicles']_vars

\* The vehicle_removed of a removed vehicle is on its way: one WebSocket has
\* been sent it and the broadcast is at the next.
C15_Witness ==
    \E c \in DOMAIN casts :
        /\ casts[c].msg.type = "vehicle_removed"
        /\ casts[c].msg.vehicle_id \notin DOMAIN vehicles
        /\ casts[c].delivered # <<>>

\* C16: the response of api_place_bid is the first reason that applies, in
\* the order: caller not a bidder (no session: Unauthorized, administrator:
\* Forbidden), vehicle unknown, vehicle closed, deadline reached, amount not
\* above current_price; the bid goes on to its commit only when none applies.
C16_RejectionOrder ==
    [][\A u \in Callers, v \in LotIds, a \in Amounts : PlaceBidValidate(u, v, a) =>
          LET st       == loop'.status
              nobidder == u \notin Bidders
              unknown  == v \notin DOMAIN vehicles
              closed   == ~vehicles[v].is_active
              late     == now >= vehicles[v].auction_end
              low      == a <= vehicles[v].current_price
          IN  /\ (st \in {"Unauthorized", "Forbidden"}) = nobidder
              /\ (st = "NotFound") = (~nobidder /\ unknown)
              /\ (st = "Closed") = (~nobidder /\ ~unknown /\ closed)
              /\ (st = "Expired") = (~nobidder /\ ~unknown /\ ~closed /\ late)
              /\ (st = "TooLow") =
                    (~nobidder /\ ~unknown /\ ~closed /\ ~late /\ low)
              /\ (st = "Accepted") =
                    (~nobidder /\ ~unknown /\ ~closed /\ ~late /\ ~low)
              /\ (loop'.pc = "validated") = (st = "Accepted")]_vars

\* A bid was rejected as Closed on a vehicle that is closed, past its
\* deadline and has a bid, so that Expired applied as well.
C16_Witness ==
    /\ loop.pc = "rejected"
    /\ loop.status = "Closed"
    /\ \A v \in LotIds \ DOMAIN vehicles : v > RaceLots
    /\ \E v \in DOMAIN vehicles :
          /\ ~vehicles[v].is_active
          /\ now >= vehicles[v].auction_end
          /\ BidsOf(v) # {}

\* C17: when a sweep takes the top bid of a vehicle (lines 95-102) and
\* several bids share the highest amount, the owner it picks is the bidder of
\* the one placed first (lowest id).
C17_EarliestTiedBidWins ==
    [][\A t \in Threads : SweepLot(t) =>
          LET v == threads[t].expired[threads[t].i]
          IN  TopBids(v) # {} =>
                threads'[t].owners[threads[t].i] =
                    (CHOOSE b \in TopBids(v) : \A c \in TopBids(v) : b.id <= c.id).user_id]_vars

\* C18: an api_place_bid that is rejected (caller not a bidder, vehicle
\* unknown, closed, past its deadline, or amount not above current_price)
\* has no effect: from its first statement to its response no vehicle, no
\* bid and no entry of manager.active changes, no broadcast begins and no
\* frame is sent.  Only a request none of the five reasons applies to goes
\* past its validation.
C18_RejectedBidNoEffect ==
    [][/\ (loop.pc = "idle" /\ loop'.pc # "idle" /\ loop'.pc # "rejected") =>
             /\ loop'.user \in Bidders
             /\ loop'.vehicle_id \in DOMAIN vehicles
             /\ vehicles[loop'.vehicle_id].is_active
             /\ now < vehicles[loop'.vehicle_id].auction_end
             /\ loop'.amount > vehicles[loop'.vehicle_id].current_price
       /\ ((loop.pc = "idle" /\ loop'.pc = "rejected") \/ PlaceBidReject) =>
             /\ vehicles' = vehicles
             /\ bids' = bids
             /\ active' = active
             /\ casts' = casts
             /\ inbox' = inbox
       /\ PlaceBidReject => loop' = IdleLoop]_vars

\* A bid on a closed vehicle is being rejected while a WebSocket that has
\* received a bid_update of that vehicle is connected.
C18_Witness ==
    /\ loop.pc = "rejected"
    /\ loop.status = "Closed"
    /\ \E v \in DOMAIN vehicles : ~vehicles[v].is_active
    /\ \E w \in Range(active) : clients[w] = "open" /\ inbox[w] # <<>>

\* C19: admin_update_auction changes the auction_end of its vehicle and
\* nothing else: is_active, owner_id, current_price, the other vehicles and
\* the bids stay as they are.  A closed vehicle therefore stays closed when
\* it is given a deadline in the future: no vehicle goes from closed to open,
\* a bid passes its validation only on an open vehicle, and a sweep selects
\* only open vehicles.
C19_RescheduleOnlyDeadline ==
    [][/\ \A v \in DOMAIN vehicles, e \in Deadlines : AdminUpdateAuction(AdminId, v, e) =>
             /\ bids' = bids
             /\ vehicles' = [w \in DOMAIN vehicles |->
                               IF w = v
                               THEN [starting_price |-> vehicles[w].starting_price,
                                     current_price  |-> vehicles[w].current_price,
                                     auction_end    |-> e,
                                     is_active      |-> vehicles[w].is_active,
                                     owner_id       |-> vehicles[w].owner_id]
                               ELSE vehicles[w]]
       /\ \A v \in LotIds : (Existing(v) /\ ~vehicles[v].is_active) => ~vehicles'[v].is_active
       /\ (loop.pc = "idle" /\ loop'.pc = "validated") => vehicles[loop'.vehicle_id].is_active
       /\ \A t \in Threads : SweepQuery(t) =>
             \A v \in Range(threads'[t].expired) : vehicles[v].is_active]_vars

\* A vehicle that a sweep closed with a winner has been given a deadline in
\* the future, and a bid on it is being rejected as Closed while a later
\* sweep has found nothing to finalize.
C19_Witness ==
    /\ loop.pc = "rejected"
    /\ loop.status = "Closed"
    /\ \E v \in DOMAIN vehicles :
          /\ ~vehicles[v].is_active
          /\ vehicles[v].auction_end > now
          /\ vehicles[v].owner_id # NoUser
    /\ \E t \in Threads : threads[t].pc = "list" /\ threads[t].expired = <<>>

\* C20: every client receives the bid_update frames of a vehicle in the order
\* the bids were committed, that is with prices that never go down: the
\* last price a client was sent is never below one it was sent before.
C20_PricesInCommitOrder ==
    \A w \in Observers : \A i, j \in 1..Len(inbox[w]) :
        (i < j /\ inbox[w][i].vehicle_id = inbox[w][j].vehicle_id)
            => inbox[w][i].current_price <= inbox[w][j].current_price
====
